---- MODULE Spec2Model ----
(***************************************************************************)
(* A model of the yuv crate (src/src/lib.rs): the YUV colour value, the    *)
(* NV12Image surface over a flat semi-planar buffer and the NV12Image2     *)
(* half-resolution view.                                                   *)
(*                                                                         *)
(* Buffers are TLA+ sequences, so byte i of the Rust buffer is data[i+1].  *)
(* Coordinates are u32 values; they are kept as two 16-bit limbs <<hi,lo>> *)
(* so that x * 2 can be computed with its 32-bit width.                    *)
(***************************************************************************)
EXTENDS Integers, Sequences, FiniteSets, TLC

VARIABLES
    build,      \* "debug" (overflow checks on) or "release" (wrapping)
    pc,         \* "new" before NV12Image::from, "ready" between calls,
                \* "returned" when a call has returned, or "panicked"
    data,       \* NV12Image.data
    width,      \* NV12Image.width
    height,     \* NV12Image.height
    gray_size,  \* NV12Image.gray_size
    last,       \* the call made last and what it returned
    old_data,   \* the buffer as it was before the last call
    data0,      \* the buffer handed to NV12Image::from
    lastw,      \* per 2x2 block, the pixel of the last completed write
    nops,       \* number of calls made on the image
    colour,     \* a YUV value the caller holds
    colour0,    \* that value as first created
    ninv,       \* number of invert() calls applied to colour
    out         \* result of the last to_rgb(), or <<>>

vars == <<build, pc, data, width, height, gray_size, last, old_data, data0,
          lastw, nops, colour, colour0, ninv, out>>

surfaceVars == <<build, pc, data, width, height, gray_size, last, old_data,
                 data0, lastw, nops>>
colourVars == <<colour, colour0, ninv, out>>

----------------------------------------------------------------------------
(* Bounds of the model *)

MaxWidth == 4
MaxHeight == 4
MaxOps == 2
MaxInverts == 2

----------------------------------------------------------------------------
(* The colour value *)

DEFAULT_MAX_VALUE == 255

BLACK == <<0, 128, 128>>
WHITE == <<255, 128, 128>>
RED == <<76, 85, 255>>
GREEN == <<0, 0, 0>>
CYAN == <<179, 171, 0>>
BLUE == <<29, 255, 107>>
YELLOW == <<226, 0, 149>>

NoPixel == <<>>

\* `f as u8` on a value given in hundredths: truncate toward zero, then
\* saturate to 0..255.
AsU8(h) ==
    LET t == IF h >= 0 THEN h \div 100 ELSE -((-h) \div 100)
    IN  IF t < 0 THEN 0 ELSE IF t > 255 THEN 255 ELSE t

\* The values `f as u8` can take when f is the f32 result of a computation
\* whose exact value is h hundredths.  The f32 rounding error of the three
\* expressions is below 1/100, so it can move the truncation only when the
\* exact value is a whole number and some intermediate quotient is not.
AsU8Rounded(h, exact) ==
    IF h % 100 # 0 \/ exact
    THEN {AsU8(h)}
    ELSE {AsU8(h), AsU8(h - 1), AsU8(h + 1)}

\* YUV::rgb: the set of results the f32 arithmetic can give.
rgb(c) ==
    LET y == c[1]
        u == c[2]
        v == c[3]
        r == 100 * y + 140 * (v - 128)
        g == 100 * y - 34 * (u - 128) - 71 * (v - 128)
        b == 100 * y + 177 * (u - 128)
    IN  { <<rr, gg, bb>> :
            rr \in AsU8Rounded(r, (140 * (v - 128)) % 100 = 0),
            gg \in AsU8Rounded(g, (34 * (u - 128)) % 100 = 0
                                  /\ (71 * (v - 128)) % 100 = 0),
            bb \in AsU8Rounded(b, (177 * (u - 128)) % 100 = 0) }

\* u8 subtraction: an underflow panics in a debug build and wraps otherwise.
U8Sub(a, b) == [val |-> (a - b) % 256, overflow |-> a < b]

\* invert that complements the luma channel only.
invert_luma_only(c) ==
    LET max == DEFAULT_MAX_VALUE
        y == U8Sub(max, c[1])
    IN  [val |-> <<y.val, c[2], c[3]>>, overflow |-> y.overflow]

\* Pixel::invert
invert(c) ==
    LET max == DEFAULT_MAX_VALUE
        y == U8Sub(max, c[1])
        u == U8Sub(max, c[2])
        v == U8Sub(max, c[3])
    IN  [val |-> <<y.val, u.val, v.val>>,
         overflow |-> y.overflow \/ u.overflow \/ v.overflow]

----------------------------------------------------------------------------
(* u32 arithmetic on <<hi, lo>> limbs *)

Limb == 65536

U32(n) == <<n \div Limb, n % Limb>>

U32Lt(a, b) == a[1] < b[1] \/ (a[1] = b[1] /\ a[2] < b[2])

U32Ge(a, b) == ~U32Lt(a, b)

\* x * 2 on a u32
Mul2(a) ==
    LET lo == 2 * a[2]
        hi == 2 * a[1] + lo \div Limb
    IN  [val |-> <<hi % Limb, lo % Limb>>, overflow |-> hi >= Limb]

----------------------------------------------------------------------------
(* The surface.  s is the NV12Image: [data, width, height, gray_size]. *)

\* check_bounds that lets x = width and y = height through.
check_bounds_inclusive(s, x, y) ==
    ~(U32Lt(U32(s.width), x) \/ U32Lt(U32(s.height), y))

\* NV12Image::check_bounds: TRUE when it returns, FALSE when it panics.
check_bounds(s, x, y) ==
    ~(U32Ge(x, U32(s.width)) \/ U32Ge(y, U32(s.height)))

\* NV12Image::to_zero_or_even
to_zero_or_even(n) == n - (n % 2)

\* pixel_indices with a chroma row stride of width/4.
pixel_indices_quarter(s, x, y) ==
    LET offset == y * s.width
        y_index == offset + x
        uv_index == s.gray_size + offset \div 4 + x
    IN  <<y_index, uv_index, uv_index + 1>>

\* NV12Image::pixel_indices
pixel_indices(s, x, y) ==
    LET offset == y * s.width
        y_index == offset + x
        uv_index == s.gray_size + offset \div 2 + x
    IN  <<y_index, uv_index, uv_index + 1>>

\* NV12Image::from
from(d, w, h) == [data |-> d, width |-> w, height |-> h, gray_size |-> w * h]

\* Indexing the buffer: an index past the end panics.
InRange(d, i) == i < Len(d)

\* get_pixel that reads the luma byte of (x, y) itself.
get_pixel_own_luma(s, x, y) ==
    IF ~check_bounds(s, x, y)
    THEN [ok |-> FALSE, val |-> NoPixel]
    ELSE LET xe == to_zero_or_even(x[2])
             ye == to_zero_or_even(y[2])
             indices == pixel_indices(s, xe, ye)
             own == pixel_indices(s, x[2], y[2])
         IN  IF \A k \in 1..3 : InRange(s.data, indices[k])
             THEN [ok |-> TRUE,
                   val |-> <<s.data[own[1] + 1],
                             s.data[indices[2] + 1],
                             s.data[indices[3] + 1]>>]
             ELSE [ok |-> FALSE, val |-> NoPixel]

\* NV12Image::get_pixel
get_pixel(s, x, y) ==
    IF ~check_bounds(s, x, y)
    THEN [ok |-> FALSE, val |-> NoPixel]
    ELSE LET xe == to_zero_or_even(x[2])
             ye == to_zero_or_even(y[2])
             indices == pixel_indices(s, xe, ye)
         IN  IF \A k \in 1..3 : InRange(s.data, indices[k])
             THEN [ok |-> TRUE,
                   val |-> <<s.data[indices[1] + 1],
                             s.data[indices[2] + 1],
                             s.data[indices[3] + 1]>>]
             ELSE [ok |-> FALSE, val |-> NoPixel]

\* The stores of put_pixel, in program order: each is <<index, byte>>.
\* A store past the end of the buffer panics and keeps the earlier stores.
RECURSIVE StoreAll(_, _)
StoreAll(d, stores) ==
    IF stores = <<>>
    THEN [ok |-> TRUE, data |-> d]
    ELSE LET st == Head(stores)
         IN  IF InRange(d, st[1])
             THEN StoreAll([d EXCEPT ![st[1] + 1] = st[2]], Tail(stores))
             ELSE [ok |-> FALSE, data |-> d]

\* put_pixel that does not snap (x, y) to the block's top-left corner.
put_pixel_unsnapped(s, x, y, pixel) ==
    IF ~check_bounds(s, x, y)
    THEN [ok |-> FALSE, data |-> s.data]
    ELSE LET indices == pixel_indices(s, x[2], y[2])
         IN  StoreAll(s.data,
                      << <<indices[1], pixel[1]>>,
                         <<indices[1] + 1, pixel[1]>>,
                         <<indices[1] + s.width, pixel[1]>>,
                         <<indices[1] + s.width + 1, pixel[1]>>,
                         <<indices[2], pixel[2]>>,
                         <<indices[3], pixel[3]>> >>)

\* put_pixel that also stores the luma one byte right of the block.
put_pixel_wide(s, x, y, pixel) ==
    IF ~check_bounds(s, x, y)
    THEN [ok |-> FALSE, data |-> s.data]
    ELSE LET xe == to_zero_or_even(x[2])
             ye == to_zero_or_even(y[2])
             indices == pixel_indices(s, xe, ye)
         IN  StoreAll(s.data,
                      << <<indices[1], pixel[1]>>,
                         <<indices[1] + 1, pixel[1]>>,
                         <<indices[1] + 2, pixel[1]>>,
                         <<indices[1] + s.width, pixel[1]>>,
                         <<indices[1] + s.width + 1, pixel[1]>>,
                         <<indices[2], pixel[2]>>,
                         <<indices[3], pixel[3]>> >>)

\* NV12Image::put_pixel
put_pixel(s, x, y, pixel) ==
    IF ~check_bounds(s, x, y)
    THEN [ok |-> FALSE, data |-> s.data]
    ELSE LET xe == to_zero_or_even(x[2])
             ye == to_zero_or_even(y[2])
             indices == pixel_indices(s, xe, ye)
         IN  StoreAll(s.data,
                      << <<indices[1], pixel[1]>>,
                         <<indices[1] + 1, pixel[1]>>,
                         <<indices[1] + s.width, pixel[1]>>,
                         <<indices[1] + s.width + 1, pixel[1]>>,
                         <<indices[2], pixel[2]>>,
                         <<indices[3], pixel[3]>> >>)

\* NV12Image::blend_pixel
blend_pixel(s, x, y, pixel) == put_pixel(s, x, y, pixel)

----------------------------------------------------------------------------
(* The half-resolution view NV12Image2(s) *)

\* NV12Image2::dimensions
NV12Image2_dimensions(s) == <<s.width \div 2, s.height \div 2>>

\* The arguments x * 2, y * 2 of a forwarded call: an overflow panics in a
\* debug build and wraps in a release build.
Doubled(b, x, y) ==
    LET dx == Mul2(x)
        dy == Mul2(y)
    IN  [ok |-> ~(b = "debug" /\ (dx.overflow \/ dy.overflow)),
         x |-> dx.val, y |-> dy.val]

\* NV12Image2::get_pixel
NV12Image2_get_pixel(s, b, x, y) ==
    LET a == Doubled(b, x, y)
    IN  IF a.ok THEN get_pixel(s, a.x, a.y)
        ELSE [ok |-> FALSE, val |-> NoPixel]

\* The view's put_pixel forwarding (x, y) without doubling.
NV12Image2_put_pixel_undoubled(s, b, x, y, pixel) == put_pixel(s, x, y, pixel)

\* NV12Image2::put_pixel
NV12Image2_put_pixel(s, b, x, y, pixel) ==
    LET a == Doubled(b, x, y)
    IN  IF a.ok THEN put_pixel(s, a.x, a.y, pixel)
        ELSE [ok |-> FALSE, data |-> s.data]

\* NV12Image2::blend_pixel
NV12Image2_blend_pixel(s, b, x, y, pixel) ==
    NV12Image2_put_pixel(s, b, x, y, pixel)

----------------------------------------------------------------------------
(* Inputs *)

\* Colours written by the drawing calls.
Palette == {WHITE, RED}

\* Contents of the buffer handed to from(): n bytes, all distinct, so that
\* every byte read shows the offset it was read from.
Ramp(n) == [i \in 1..n |-> (i - 1) % 256]

\* Length of an NV12 buffer for a w x h image.
Need(w, h) == w * h + (w * h) \div 2

\* Lengths of the buffers supplied: the exact one and one byte short.
BufLens(w, h) == {Need(w, h) - 1, Need(w, h)}

\* Coordinates passed to the surface: every pixel and the first ones past
\* the right and bottom edges.
XCoords == {U32(k) : k \in 0..MaxWidth}
YCoords == {U32(k) : k \in 0..MaxHeight}

\* Coordinates passed to the view: small ones, and 2^31 and 2^32 - 1, whose
\* doubles do not fit in a u32.
BigCoords == {<<32768, 0>>, <<65535, 65535>>}
ViewXCoords == {U32(k) : k \in 0..(MaxWidth \div 2)} \cup BigCoords
ViewYCoords == {U32(k) : k \in 0..(MaxHeight \div 2)} \cup BigCoords

\* Colour values: the named constants and a grid of sample bytes.
ByteSamples == {0, 1, 128, 254, 255}
Named == {BLACK, WHITE, RED, GREEN, CYAN, BLUE, YELLOW}
ColourInputs == Named \cup (ByteSamples \X ByteSamples \X ByteSamples)

----------------------------------------------------------------------------
(* State machine of the surface and the view *)

self == [data |-> data, width |-> width, height |-> height,
         gray_size |-> gray_size]

old_self == [data |-> old_data, width |-> width, height |-> height,
             gray_size |-> gray_size]

\* Top-left coordinates of the 2x2 blocks of a w x h image.
Blocks(w, h) ==
    {<<bx, by>> \in (0..(w - 1)) \X (0..(h - 1)) : bx % 2 = 0 /\ by % 2 = 0}

NoCall == [op |-> "none", x |-> U32(0), y |-> U32(0), pixel |-> NoPixel,
           ok |-> TRUE, val |-> NoPixel]

SurfaceInit ==
    /\ build \in {"debug", "release"}
    /\ pc = "new"
    /\ data = <<>>
    /\ width = 0
    /\ height = 0
    /\ gray_size = 0
    /\ last = NoCall
    /\ old_data = <<>>
    /\ data0 = <<>>
    /\ lastw = <<>>
    /\ nops = 0

ColourIdle ==
    /\ colour = BLACK
    /\ colour0 = BLACK
    /\ ninv = 0
    /\ out = <<>>

Init == SurfaceInit /\ ColourIdle

\* NV12Image::from(data, width, height)
From(d, w, h) ==
    /\ pc = "new"
    /\ LET s == from(d, w, h)
       IN  /\ data' = s.data
           /\ width' = s.width
           /\ height' = s.height
           /\ gray_size' = s.gray_size
    /\ pc' = "returned"
    /\ last' = [NoCall EXCEPT !.op = "from"]
    /\ old_data' = d
    /\ data0' = d
    /\ lastw' = [b \in Blocks(w, h) |-> NoPixel]
    /\ UNCHANGED <<build, nops>>
    /\ UNCHANGED colourVars

\* A read: the buffer is untouched, a panic ends the run.
Read(op, x, y, r) ==
    /\ last' = [op |-> op, x |-> x, y |-> y, pixel |-> NoPixel,
                ok |-> r.ok, val |-> r.val]
    /\ old_data' = data
    /\ pc' = IF r.ok THEN "returned" ELSE "panicked"
    /\ nops' = nops + 1
    /\ UNCHANGED <<build, data, width, height, gray_size, data0, lastw>>
    /\ UNCHANGED colourVars

\* A write at surface coordinates (sx, sy): the buffer takes the stores made
\* before any panic.
Wrote(op, x, y, pixel, r, sx, sy) ==
    /\ last' = [op |-> op, x |-> x, y |-> y, pixel |-> pixel,
                ok |-> r.ok, val |-> NoPixel]
    /\ old_data' = data
    /\ data' = r.data
    /\ pc' = IF r.ok THEN "returned" ELSE "panicked"
    /\ nops' = nops + 1
    /\ lastw' = IF r.ok
                THEN [lastw EXCEPT ![<<to_zero_or_even(sx[2]),
                                       to_zero_or_even(sy[2])>>] = pixel]
                ELSE lastw
    /\ UNCHANGED <<build, width, height, gray_size, data0>>
    /\ UNCHANGED colourVars

CanCall == pc = "ready" /\ nops < MaxOps

\* The caller is done with the value a call returned and goes on.
Return ==
    /\ pc = "returned"
    /\ pc' = "ready"
    /\ last' = NoCall
    /\ old_data' = data
    /\ UNCHANGED <<build, data, width, height, gray_size, data0, lastw, nops>>
    /\ UNCHANGED colourVars

GetPixel(x, y) ==
    /\ CanCall
    /\ Read("get_pixel", x, y, get_pixel(self, x, y))

PutPixel(x, y, pixel) ==
    /\ CanCall
    /\ Wrote("put_pixel", x, y, pixel, put_pixel(self, x, y, pixel), x, y)

BlendPixel(x, y, pixel) ==
    /\ CanCall
    /\ Wrote("blend_pixel", x, y, pixel, blend_pixel(self, x, y, pixel), x, y)

ViewGetPixel(x, y) ==
    /\ CanCall
    /\ Read("view_get_pixel", x, y, NV12Image2_get_pixel(self, build, x, y))

ViewPutPixel(x, y, pixel) ==
    /\ CanCall
    /\ Wrote("view_put_pixel", x, y, pixel,
             NV12Image2_put_pixel(self, build, x, y, pixel),
             Mul2(x).val, Mul2(y).val)

ViewBlendPixel(x, y, pixel) ==
    /\ CanCall
    /\ Wrote("view_blend_pixel", x, y, pixel,
             NV12Image2_blend_pixel(self, build, x, y, pixel),
             Mul2(x).val, Mul2(y).val)

Next ==
    \/ \E w \in 1..MaxWidth, h \in 1..MaxHeight :
         \E n \in BufLens(w, h) : From(Ramp(n), w, h)
    \/ Return
    \/ \E x \in XCoords, y \in YCoords : GetPixel(x, y)
    \/ \E x \in XCoords, y \in YCoords, p \in Palette : PutPixel(x, y, p)
    \/ \E x \in XCoords, y \in YCoords, p \in Palette : BlendPixel(x, y, p)
    \/ \E x \in ViewXCoords, y \in ViewYCoords : ViewGetPixel(x, y)
    \/ \E x \in ViewXCoords, y \in ViewYCoords, p \in Palette :
         ViewPutPixel(x, y, p)
    \/ \E x \in ViewXCoords, y \in ViewYCoords, p \in Palette :
         ViewBlendPixel(x, y, p)

Spec == Init /\ [][Next]_vars

----------------------------------------------------------------------------
(* State machine of a colour value *)

ColourInit ==
    /\ colour \in ColourInputs
    /\ colour0 = colour
    /\ ninv = 0
    /\ out = <<>>

InitColour == SurfaceInit /\ ColourInit

\* c.invert(): an underflow panics in a debug build, which ends the run.
Invert ==
    /\ ninv < MaxInverts
    /\ colour # NoPixel
    /\ LET r == invert(colour)
       IN  colour' = IF r.overflow /\ build = "debug" THEN NoPixel ELSE r.val
    /\ ninv' = ninv + 1
    /\ out' = <<>>
    /\ UNCHANGED colour0
    /\ UNCHANGED surfaceVars

\* c.to_rgb()
ToRgb ==
    /\ colour # NoPixel
    /\ out = <<>>
    /\ out' \in rgb(colour)
    /\ UNCHANGED <<colour, colour0, ninv>>
    /\ UNCHANGED surfaceVars

NextColour == Invert \/ ToRgb

SpecColour == InitColour /\ [][NextColour]_vars

----------------------------------------------------------------------------
(* Properties *)

\* An image of even dimensions over a buffer of exactly width*height*3/2
\* bytes.
WellFormed ==
    /\ pc # "new"
    /\ width % 2 = 0
    /\ height % 2 = 0
    /\ Len(data0) = (width * height * 3) \div 2

SurfaceOps == {"get_pixel", "put_pixel", "blend_pixel"}
ViewOps == {"view_get_pixel", "view_put_pixel", "view_blend_pixel"}

\* The last call's coordinates lie inside the surface / inside the view.
InBounds == U32Lt(last.x, U32(width)) /\ U32Lt(last.y, U32(height))
InView ==
    /\ U32Lt(last.x, U32(NV12Image2_dimensions(self)[1]))
    /\ U32Lt(last.y, U32(NV12Image2_dimensions(self)[2]))

Even(n) == n - (n % 2)

\* Offsets of the 2x2 block holding (x, y), as the layout defines them.
LumaBase(x, y) == Even(y) * width + Even(x)
ChromaBase(x, y) == width * height + (Even(y) \div 2) * width + Even(x)
Footprint(x, y) ==
    {LumaBase(x, y), LumaBase(x, y) + 1, LumaBase(x, y) + width,
     LumaBase(x, y) + width + 1, ChromaBase(x, y), ChromaBase(x, y) + 1}

SameBlock(x1, y1, x2, y2) == Even(x1) = Even(x2) /\ Even(y1) = Even(y2)

Pixels == (0..(width - 1)) \X (0..(height - 1))

Abs(n) == IF n < 0 THEN -n ELSE n

\* C1: on a well-formed image, put_pixel(x, y, c) at an in-bounds (x, y)
\* succeeds and get_pixel then returns exactly c at each of the four
\* coordinates of the 2x2 block containing (x, y).
C1_BlockUniformity ==
    (WellFormed /\ last.op = "put_pixel" /\ InBounds) =>
        /\ last.ok
        /\ \A dx \in {0, 1}, dy \in {0, 1} :
             get_pixel(self, U32(Even(last.x[2]) + dx),
                             U32(Even(last.y[2]) + dy))
               = [ok |-> TRUE, val |-> last.pixel]

C1_Witness ==
    /\ WellFormed
    /\ last.op = "put_pixel"
    /\ last.ok
    /\ last.x[2] % 2 = 1
    /\ last.y[2] % 2 = 1
    /\ data # old_data

\* C2: on a well-formed image, a successful put_pixel(x, y, c) sets the four
\* luma bytes and the two chroma bytes of the block containing (x, y) and
\* leaves every other byte as it was, so get_pixel outside that block returns
\* what it returned before.
C2_FrameOfPut ==
    (WellFormed /\ last.op = "put_pixel" /\ last.ok) =>
        LET x == last.x[2]
            y == last.y[2]
        IN  /\ Len(data) = Len(old_data)
            /\ \A i \in 0..(Len(data) - 1) :
                 i \notin Footprint(x, y) => data[i + 1] = old_data[i + 1]
            /\ \A k \in {0, 1, width, width + 1} :
                 data[LumaBase(x, y) + k + 1] = last.pixel[1]
            /\ data[ChromaBase(x, y) + 1] = last.pixel[2]
            /\ data[ChromaBase(x, y) + 2] = last.pixel[3]
            /\ \A p \in Pixels :
                 ~SameBlock(p[1], p[2], x, y) =>
                    get_pixel(self, U32(p[1]), U32(p[2]))
                      = get_pixel(old_self, U32(p[1]), U32(p[2]))

C2_Witness ==
    /\ WellFormed
    /\ last.op = "put_pixel"
    /\ last.ok
    /\ width = 4
    /\ height = 4
    /\ Cardinality({i \in 1..Len(data) : data[i] # old_data[i]}) = 6

\* C3: on a well-formed image, get_pixel, put_pixel and blend_pixel succeed
\* at (width-1, height-1), and at any (x, y) with x >= width or y >= height
\* they panic and leave the buffer unchanged.
C3_BoundsRule ==
    (WellFormed /\ last.op \in SurfaceOps) =>
        /\ (last.x = U32(width - 1) /\ last.y = U32(height - 1)) => last.ok
        /\ ~InBounds => (~last.ok /\ data = old_data /\ pc = "panicked")

C3_Witness ==
    /\ WellFormed
    /\ last.op = "put_pixel"
    /\ last.x = U32(width)
    /\ last.y = U32(height - 1)
    /\ ~last.ok
    /\ nops = 2
    /\ data # data0

\* C4: no surface of even dimensions is ever constructed over a buffer
\* shorter than width*height + width*height/2, so a call at in-bounds
\* coordinates never fails and never writes a part of a block.
C4_ShortBufferRejected ==
    (pc # "new" /\ width % 2 = 0 /\ height % 2 = 0) =>
        /\ Len(data) >= Need(width, height)
        /\ (last.op \in SurfaceOps /\ InBounds) =>
              (last.ok /\ Len(data) = Len(old_data))

\* C5: on a well-formed image, for (x, y) inside the view, view.get_pixel
\* returns what surface.get_pixel(2x, 2y) returns, and view.put_pixel and
\* view.blend_pixel leave the buffer as surface.put_pixel(2x, 2y, c) would.
C5_ViewEquivalence ==
    (WellFormed /\ last.op \in ViewOps /\ InView) =>
        LET sx == U32(2 * last.x[2])
            sy == U32(2 * last.y[2])
        IN  /\ last.ok
            /\ last.op = "view_get_pixel" =>
                 /\ last.val = get_pixel(old_self, sx, sy).val
                 /\ last.val = <<old_data[LumaBase(sx[2], sy[2]) + 1],
                                 old_data[ChromaBase(sx[2], sy[2]) + 1],
                                 old_data[ChromaBase(sx[2], sy[2]) + 2]>>
                 /\ data = old_data
            /\ last.op # "view_get_pixel" =>
                 /\ put_pixel(old_self, sx, sy, last.pixel).ok
                 /\ data = put_pixel(old_self, sx, sy, last.pixel).data

C5_Witness ==
    /\ WellFormed
    /\ last.op = "view_put_pixel"
    /\ InView
    /\ last.x = U32(1)
    /\ last.y = U32(1)
    /\ nops = 2
    /\ old_data # data0
    /\ data # old_data

\* C6: on a well-formed image, a view call at any u32 (x, y) with
\* x >= width/2 or y >= height/2 panics and leaves the buffer unchanged.
C6_ViewOutOfBoundsFatal ==
    (WellFormed /\ last.op \in ViewOps /\ ~InView) =>
        (~last.ok /\ data = old_data)

\* C7: to_rgb of each named constant is within 3 per channel of the
\* canonical RGB colour of that name.
Canonical(c) ==
    CASE c = BLACK -> <<0, 0, 0>>
      [] c = WHITE -> <<255, 255, 255>>
      [] c = RED -> <<255, 0, 0>>
      [] c = GREEN -> <<0, 255, 0>>
      [] c = BLUE -> <<0, 0, 255>>
      [] c = CYAN -> <<0, 255, 255>>
      [] c = YELLOW -> <<255, 255, 0>>

C7_NamedConstants ==
    (colour \in Named /\ ninv = 0 /\ out # <<>>) =>
        /\ \A i \in 1..3 : Abs(out[i] - Canonical(colour)[i]) <= 3
        /\ colour = BLACK => out = <<0, 0, 0>>
        /\ colour = WHITE => out = <<255, 255, 255>>

\* C8: invert never underflows, replaces each channel v by 255 - v, and
\* applied twice gives back the colour it started from.
C8_InvertInvolution ==
    /\ colour # NoPixel
    /\ ninv % 2 = 1 => \A i \in 1..3 : colour[i] = 255 - colour0[i]
    /\ ninv % 2 = 0 => colour = colour0

C8_Witness ==
    /\ ninv = 2
    /\ colour = colour0
    /\ colour = <<1, 254, 128>>

\* C9: on a well-formed image, get_pixel at an in-bounds (x, y) returns the
\* luma byte at y_even*width + x_even and the two chroma bytes at
\* gray_size + (y_even/2)*width + x_even, whatever the buffer holds, and
\* does not modify the buffer.
C9_ReadAddressing ==
    (WellFormed /\ last.op = "get_pixel" /\ InBounds) =>
        LET x == last.x[2]
            y == last.y[2]
        IN  /\ last.ok
            /\ last.val = <<old_data[LumaBase(x, y) + 1],
                            old_data[ChromaBase(x, y) + 1],
                            old_data[ChromaBase(x, y) + 2]>>
            /\ data = old_data

C9_Witness ==
    /\ WellFormed
    /\ last.op = "get_pixel"
    /\ last.ok
    /\ last.x[2] % 2 = 1
    /\ last.y[2] % 2 = 1
    /\ old_data[last.y[2] * width + last.x[2] + 1] # last.val[1]

\* C10: on a well-formed image, after any sequence of calls get_pixel at
\* every in-bounds (x, y) returns the pixel of the last completed write to
\* the block containing (x, y), or the block's initial top-left luma and
\* chroma pair if it was never written; the footprints of distinct blocks
\* are disjoint, luma offsets lie below gray_size and chroma offsets at or
\* above it, and the buffer keeps its length.
C10_LastWriterWins ==
    WellFormed =>
        /\ Len(data) = Len(data0)
        /\ \A p \in Pixels :
             LET x == p[1]
                 y == p[2]
                 w == lastw[<<Even(x), Even(y)>>]
             IN  get_pixel(self, U32(x), U32(y)) =
                   [ok |-> TRUE,
                    val |-> IF w = NoPixel
                            THEN <<data0[LumaBase(x, y) + 1],
                                   data0[ChromaBase(x, y) + 1],
                                   data0[ChromaBase(x, y) + 2]>>
                            ELSE w]
        /\ \A p \in Blocks(width, height), q \in Blocks(width, height) :
             p # q => Footprint(p[1], p[2]) \cap Footprint(q[1], q[2]) = {}
        /\ \A p \in Blocks(width, height) :
             /\ LumaBase(p[1], p[2]) + width + 1 < gray_size
             /\ ChromaBase(p[1], p[2]) >= gray_size
             /\ ChromaBase(p[1], p[2]) + 1 < Len(data)

C10_Witness ==
    /\ WellFormed
    /\ nops = 2
    /\ last.op \in {"put_pixel", "blend_pixel", "view_put_pixel",
                    "view_blend_pixel"}
    /\ last.ok
    /\ Cardinality({b \in DOMAIN lastw : lastw[b] # NoPixel}) = 2
    /\ \E b \in DOMAIN lastw : lastw[b] = WHITE
    /\ \E b \in DOMAIN lastw : lastw[b] = RED

====
